---- MODULE Spec2Model ----
(***************************************************************************)
(* Incident / Action workflow of backend/server.py: the incidents and      *)
(* actions collections, the handlers that write them (create_incident,     *)
(* update_incident, generate_recommendations, approve_action,              *)
(* reject_action) and the parsing of the narrative generator's response.   *)
(*                                                                         *)
(* Conventions.  An Optional[...] field is <<>> for None and <<v>> for a   *)
(* value v.  A collection is the sequence of its documents in insertion    *)
(* order; find_one / update_one act on the first document that matches.    *)
(* A handler is cut at its awaits: one action per database write, the      *)
(* synchronous code before it included.                                    *)
(***************************************************************************)
EXTENDS Integers, Sequences, FiniteSets, TLC

\* ------------------------------------------------------------------ bounds
MaxIncidents == 1   \* create_incident requests served
MaxPatches == 2     \* update_incident requests that match a document
MaxRecommends == 1  \* generate_recommendations requests served
MaxDecisions == 2   \* approve_action / reject_action requests that match
MaxTime == 1        \* last value of the clock
MaxRespLen == 3     \* tokens in a narrative generator response
MaxTrain == 23      \* largest training set of a direct train call
MaxFailureSamples == 2  \* failure samples in such a training set
MaxClock == 30      \* last second the background tasks are followed to
MaxFailures == 1    \* persistence failures met by each background task
MaxPasses == 1      \* detect_anomalies requests served
MaxInjects == 2     \* inject-failure / clear-failure requests served
MaxAnalyses == 1    \* analyze_incident requests served
StoreCycles == 5    \* cycles of samples in db.metrics when every operation runs
MaxBatches == 2     \* generate_recommendations requests for one incident

\* ------------------------------------------------------------------ values
None == <<>>
Some(v) == <<v>>

Statuses == {"open", "investigating", "resolved"}
\* What a PATCH body may carry under "status": any string.
PatchStatuses == Statuses \cup {"closed"}
\* What a PATCH body may carry under "resolved_at": null or a truthy marker.
PatchResolved == {"null", "marker"}
Approvers == {"alice"}
\* An id that no uuid4() call returns (the ids in request paths are free text).
ForeignId == 0

\* ------------------------------------------------- narrative generator text
\* A response is a sequence of tokens: brackets, commas, prose, and JSON
\* objects (objA carries the four proposal keys, objB only "action").
Tokens == {"[", "]", ",", "txt", "objA", "objB"}
ObjectTokens == {"objA", "objB"}

\* A JSON value as generate_recommendations uses it: rec['action'], ...
Obj(a, d, r, i) ==
    [json |-> "object", action |-> Some(a), description |-> Some(d),
     risk_level |-> Some(r), impact |-> Some(i)]

ArrayValue ==
    [json |-> "array", action |-> None, description |-> None,
     risk_level |-> None, impact |-> None]

TokenObject(tok) ==
    IF tok = "objA"
    THEN Obj("Rollback Deploy", "Roll back the latest deployment", "high",
             "Restores the previous version")
    ELSE [json |-> "object", action |-> Some("Page On-Call"), description |-> None,
          risk_level |-> None, impact |-> None]

\* server.py:560-579, the list of the else branch.
Fallback3 ==
    << Obj("Scale Resources",
           "Increase CPU and memory allocation for the affected service",
           "low", "Improved performance and reduced error rates"),
       Obj("Restart Service",
           "Perform a rolling restart of the service instances",
           "medium", "Clears memory leaks and resets connections"),
       Obj("Review Recent Changes",
           "Investigate and potentially rollback recent deployments",
           "low", "Identifies root cause if related to recent changes") >>

\* server.py:581-588, the list of the bare except branch.
Fallback1 ==
    << Obj("Scale Resources", "Increase CPU and memory allocation", "low",
           "Improved performance") >>

\* str.find: 0-based index of the first occurrence, -1 when absent.
Find(s, tok) ==
    IF \E i \in 1..Len(s) : s[i] = tok
    THEN (CHOOSE i \in 1..Len(s) :
              s[i] = tok /\ \A j \in 1..(i - 1) : s[j] # tok) - 1
    ELSE -1

\* str.rfind: 0-based index of the last occurrence, -1 when absent.
RFind(s, tok) ==
    IF \E i \in 1..Len(s) : s[i] = tok
    THEN (CHOOSE i \in 1..Len(s) :
              s[i] = tok /\ \A j \in (i + 1)..Len(s) : s[j] # tok) - 1
    ELSE -1

\* response[a:b] for 0 <= a < b <= len(response).
Slice(s, a, b) == SubSeq(s, a + 1, b)

ParseFail == [ok |-> FALSE, next |-> 0, val |-> ArrayValue, elems |-> <<>>]

\* json.loads on a token sequence: value ::= object | array,
\* array ::= "[" "]" | "[" value ("," value)* "]".
RECURSIVE ParseValue(_, _), ParseElements(_, _, _)
ParseValue(s, i) ==
    IF i > Len(s) THEN ParseFail
    ELSE IF s[i] \in ObjectTokens
    THEN [ok |-> TRUE, next |-> i + 1, val |-> TokenObject(s[i]), elems |-> <<>>]
    ELSE IF s[i] = "["
    THEN IF i + 1 <= Len(s) /\ s[i + 1] = "]"
         THEN [ok |-> TRUE, next |-> i + 2, val |-> ArrayValue, elems |-> <<>>]
         ELSE ParseElements(s, i + 1, <<>>)
    ELSE ParseFail

ParseElements(s, i, acc) ==
    LET v == ParseValue(s, i) IN
    IF ~v.ok \/ v.next > Len(s) THEN ParseFail
    ELSE IF s[v.next] = "]"
    THEN [ok |-> TRUE, next |-> v.next + 1, val |-> ArrayValue,
          elems |-> Append(acc, v.val)]
    ELSE IF s[v.next] = ","
    THEN ParseElements(s, v.next + 1, Append(acc, v.val))
    ELSE ParseFail

\* json.loads(text): the whole text must be one value.
JsonLoads(s) ==
    LET r == ParseValue(s, 1) IN
    IF r.ok /\ r.next = Len(s) + 1 THEN r ELSE ParseFail

\* HasBracketSpan without its comparison of the two ends.
HasBracketSpan_NoEndTest(json_start, json_end) == json_start >= 0

\* The test that guards json.loads, server.py:554-556.
HasBracketSpan(json_start, json_end) == json_start >= 0 /\ json_end > json_start

\* server.py:552-588: the recommendations taken from a response.
ParseRecommendations(response) ==
    LET json_start == Find(response, "[")
        json_end == RFind(response, "]") + 1
    IN  IF HasBracketSpan(json_start, json_end)
        THEN LET r == JsonLoads(Slice(response, json_start, json_end))
             IN  IF r.ok THEN r.elems ELSE Fallback1
        ELSE Fallback3

\* rec['action'], rec['description'], rec['risk_level'], rec['impact'] all
\* succeed (no KeyError, no TypeError).
HasProposalKeys(rec) ==
    /\ rec.json = "object"
    /\ rec.action # None /\ rec.description # None
    /\ rec.risk_level # None /\ rec.impact # None

RECURSIVE SeqsUpTo(_, _)
SeqsUpTo(S, n) ==
    IF n = 0 THEN {<<>>}
    ELSE LET shorter == SeqsUpTo(S, n - 1)
         IN  shorter \cup {Append(q, x) : q \in {p \in shorter : Len(p) = n - 1}, x \in S}

Responses == SeqsUpTo(Tokens, MaxRespLen)

\* ------------------------------------------------------------------- state
\* incidents, actions : the collections db.incidents and db.actions
\* now                : the clock read by datetime.now(timezone.utc)
\* reqs               : the generate_recommendations calls, each at its await
\* everResolved       : history, per incident: a patch has set status resolved
\* patches, decisions : history: matching PATCH / approve-or-reject requests
VARIABLES incidents, actions, now, reqs, everResolved, patches, decisions

\* metrics, anomalies  : the collections db.metrics and db.anomalies
\* engine              : the global anomaly_detector
\* simulator           : the global data_simulator
\* feed, retrain       : the two background tasks, each at its await
\* passes              : the detect_anomalies calls, each at its await
\* analyses            : the analyze_incident calls, each at their await
\* ret                 : the value returned by the latest call of the engine
\* reply               : the reply to the latest request
VARIABLES metrics, anomalies, engine, simulator, feed, retrain, passes,
          analyses, ret, reply

monitorVars == <<metrics, anomalies, engine, simulator, feed, retrain, passes, ret>>

\* Everything but the reply.
dataVars == <<incidents, actions, now, reqs, everResolved, patches, decisions,
              metrics, anomalies, engine, simulator, feed, retrain, passes,
              analyses, ret>>

vars == <<dataVars, reply>>

Reqs == 1..Len(reqs)

\* uuid4() of the n-th document of a collection: fresh, never ForeignId.
NewId(collection) == Len(collection) + 1

\* Ids a request path or body can name: those handed out so far and a foreign one.
KnownIncidentIds == {ForeignId} \cup {incidents[i].id : i \in 1..Len(incidents)} \cup 1..Len(incidents)
KnownActionIds == {ForeignId} \cup 1..Len(actions)

\* Position of the first document with this id, 0 when none (find_one).
FindOne(collection, id) ==
    IF \E i \in 1..Len(collection) : collection[i].id = id
    THEN CHOOSE i \in 1..Len(collection) :
             collection[i].id = id /\ \A j \in 1..(i - 1) : collection[j].id # id
    ELSE 0

\* --------------------------------------------------------- create_incident
\* A POST /incidents body: the IncidentCreate fields and keys it does not declare.
CreateBodies ==
    [title : {"Test Performance Issue"}, severity : {"high"},
     service : {"api-gateway"}, anomaly_ids : {<<>>},
     status : {None, Some("resolved")},
     resolved_at : {None, Some(0)},
     root_cause : {None, Some("disk full")}]

\* NewIncident letting a status in the body through.
NewIncident_StatusFromBody(body, id, t) ==
    [id |-> id, title |-> body.title,
     status |-> IF body.status # None THEN body.status[1] ELSE "open",
     severity |-> body.severity, service |-> body.service,
     root_cause |-> None, ai_explanation |-> None, recommendations |-> None,
     created_at |-> t, resolved_at |-> None, anomaly_ids |-> body.anomaly_ids]

\* server.py:383-387: IncidentCreate keeps its four declared fields, status is
\* forced to 'open', Incident(...) fills the defaults.
NewIncident(body, id, t) ==
    [id |-> id, title |-> body.title, status |-> "open",
     severity |-> body.severity, service |-> body.service,
     root_cause |-> None, ai_explanation |-> None, recommendations |-> None,
     created_at |-> t, resolved_at |-> None, anomaly_ids |-> body.anomaly_ids]

CreateIncident(body) ==
    /\ Len(incidents) < MaxIncidents
    /\ incidents' = Append(incidents, NewIncident(body, NewId(incidents), now))
    /\ everResolved' = Append(everResolved, FALSE)
    /\ UNCHANGED <<actions, now, reqs, patches, decisions>>
    /\ UNCHANGED <<monitorVars, analyses>>

\* --------------------------------------------------------- update_incident
\* A PATCH body: any subset of the keys status, resolved_at, id (None: key absent).
PatchBodies ==
    {u \in [status : {None} \cup {Some(x) : x \in PatchStatuses},
            resolved_at : {None} \cup {Some(x) : x \in PatchResolved},
            id : {None} \cup {Some(x) : x \in KnownIncidentIds}] :
        u.status # None \/ u.resolved_at # None \/ u.id # None}

\* The body sent with a PATCH whose id matches nothing (it is not applied).
NoMatchBody == [status |-> Some("resolved"), resolved_at |-> Some("marker"), id |-> None]

\* server.py:426-427: a truthy resolved_at is replaced by the current time.
StampResolved(updates, t) ==
    IF updates.resolved_at = Some("marker")
    THEN [updates EXCEPT !.resolved_at = Some(Some(t))]
    ELSE IF updates.resolved_at = Some("null")
    THEN [updates EXCEPT !.resolved_at = Some(None)]
    ELSE updates

\* {"$set": updates} on one incident document (updates already stamped).
SetIncident(doc, updates) ==
    [doc EXCEPT
        !.status = IF updates.status # None THEN updates.status[1] ELSE @,
        !.resolved_at = IF updates.resolved_at # None THEN updates.resolved_at[1] ELSE @,
        !.id = IF updates.id # None THEN updates.id[1] ELSE @]

UpdateIncident(incident_id, body) ==
    LET i == FindOne(incidents, incident_id)
        updates == StampResolved(body, now)
    IN  IF i = 0
        THEN UNCHANGED dataVars
        ELSE /\ patches < MaxPatches
             /\ patches' = patches + 1
             /\ incidents' = [incidents EXCEPT ![i] = SetIncident(@, updates)]
             /\ everResolved' = [everResolved EXCEPT
                                    ![i] = @ \/ body.status = Some("resolved")]
             /\ UNCHANGED <<actions, now, reqs, decisions>>
             /\ UNCHANGED <<monitorVars, analyses>>

\* ------------------------------------------------ generate_recommendations
NewReq == [pc |-> "idle", incident_id |-> ForeignId, kind |-> "none",
           recs |-> <<>>, k |-> 0, made |-> <<>>]

\* How a response reads, in the words of the interface description: no
\* bracketed list, a bracketed span that does not parse, or a list.
ResponseKind(response) ==
    LET hasOpen == \E i \in 1..Len(response) : response[i] = "["
        hasClose == \E i \in 1..Len(response) : response[i] = "]"
        firstOpen == CHOOSE i \in 1..Len(response) :
                        response[i] = "[" /\ \A j \in 1..(i - 1) : response[j] # "["
        lastClose == CHOOSE i \in 1..Len(response) :
                        response[i] = "]" /\ \A j \in (i + 1)..Len(response) : response[j] # "]"
    IN  IF ~hasOpen \/ ~hasClose THEN "nobracket"
        ELSE IF lastClose < firstOpen THEN "nobracket"
        ELSE IF JsonLoads(SubSeq(response, firstOpen, lastClose)).ok THEN "list"
        ELSE "unparsable"

\* server.py:598-605: the Action built from one recommendation.
NewAction(rec, incident_id, id, t) ==
    [id |-> id, incident_id |-> incident_id, action |-> rec.action[1],
     description |-> rec.description[1], risk_level |-> rec.risk_level[1],
     impact |-> rec.impact[1], status |-> "pending", approved_by |-> None,
     executed_at |-> None, created_at |-> t]

\* server.py:608: db.actions.insert_one adds the document.
InsertAction(collection, doc) == Append(collection, doc)

\* The recommendations written together with a status that tells of them.
SetRecommendations_Investigating(doc, recs) ==
    [doc EXCEPT !.recommendations = Some(recs), !.status = "investigating"]

\* server.py:590-594: {"$set": {"recommendations": ...}} on one document.
SetRecommendations(doc, recs) == [doc EXCEPT !.recommendations = Some(recs)]

\* server.py:522-524: the incident is looked up; 404 when absent.
RecommendStart(incident_id) ==
    /\ reqs' = Append(reqs,
                  IF FindOne(incidents, incident_id) = 0
                  THEN [NewReq EXCEPT !.pc = "notfound", !.incident_id = incident_id]
                  ELSE [NewReq EXCEPT !.pc = "llm", !.incident_id = incident_id])
    /\ UNCHANGED <<incidents, actions, now, everResolved, patches, decisions>>
    /\ UNCHANGED <<monitorVars, analyses>>

\* server.py:548-594: the response arrives, is parsed, and the incident's
\* recommendations are set (update_one, whose matched_count is not read).
RecommendRespond(r, response) ==
    LET recs == ParseRecommendations(response)
        i == FindOne(incidents, reqs[r].incident_id)
    IN  /\ reqs[r].pc = "llm"
        /\ incidents' = IF i = 0 THEN incidents
                        ELSE [incidents EXCEPT ![i] = SetRecommendations(@, recs)]
        /\ reqs' = [reqs EXCEPT ![r] =
                      [@ EXCEPT !.pc = "insert", !.kind = ResponseKind(response),
                                !.recs = recs, !.k = 1]]
        /\ UNCHANGED <<actions, now, everResolved, patches, decisions>>
        /\ UNCHANGED <<monitorVars, analyses>>

\* server.py:597-613: one turn of the loop over the recommendations (the
\* Action is built, then inserted), or the return after the last one.
RecommendInsert(r) ==
    LET q == reqs[r] IN
    /\ q.pc = "insert"
    /\ IF q.k > Len(q.recs)
       THEN /\ reqs' = [reqs EXCEPT ![r].pc = "done"]
            /\ UNCHANGED actions
       ELSE IF ~HasProposalKeys(q.recs[q.k])
       THEN /\ reqs' = [reqs EXCEPT ![r].pc = "failed"]
            /\ UNCHANGED actions
       ELSE /\ actions' = InsertAction(actions,
                            NewAction(q.recs[q.k], q.incident_id, NewId(actions), now))
            /\ reqs' = [reqs EXCEPT ![r].k = @ + 1,
                                    ![r].made = Append(@, NewId(actions))]
    /\ UNCHANGED <<incidents, now, everResolved, patches, decisions>>
    /\ UNCHANGED <<monitorVars, analyses>>

\* ------------------------------------------- approve_action, reject_action
\* Approved without the approver.
Approved_NoApprover(doc, approved_by, t) ==
    [doc EXCEPT !.status = "approved", !.executed_at = Some(t)]

\* server.py:644-648: the $set of an approval.
Approved(doc, approved_by, t) ==
    [doc EXCEPT !.status = "approved", !.approved_by = Some(approved_by),
                !.executed_at = Some(t)]

\* server.py:668: the $set of a rejection.
Rejected(doc) == [doc EXCEPT !.status = "rejected"]

ApproveAction(action_id, approved_by) ==
    LET i == FindOne(actions, action_id) IN
    IF i = 0
    THEN UNCHANGED dataVars
    ELSE /\ decisions < MaxDecisions
         /\ decisions' = decisions + 1
         /\ actions' = [actions EXCEPT ![i] = Approved(@, approved_by, now)]
         /\ UNCHANGED <<incidents, now, reqs, everResolved, patches>>
         /\ UNCHANGED <<monitorVars, analyses>>

RejectAction(action_id) ==
    LET i == FindOne(actions, action_id) IN
    IF i = 0
    THEN UNCHANGED dataVars
    ELSE /\ decisions < MaxDecisions
         /\ decisions' = decisions + 1
         /\ actions' = [actions EXCEPT ![i] = Rejected(@)]
         /\ UNCHANGED <<incidents, now, reqs, everResolved, patches>>
         /\ UNCHANGED <<monitorVars, analyses>>

\* ------------------------------------------------------- AnomalyDetector
\* A feature vector: cpu, memory, latency, error_rate, requests_per_sec.
\* One representative of generate_metric's normal ranges and one of its
\* failure ranges.
NormalSample == <<35, 45, 100, 1, 300>>
FailureSample == <<90, 90, 800, 40, 75>>
Samples == {NormalSample, FailureSample}

metric_names == <<"cpu", "memory", "latency", "error_rate", "requests_per_sec">>

Abs(x) == IF x < 0 THEN -x ELSE x

Gcd[a \in Nat, b \in Nat] == IF b = 0 THEN a ELSE Gcd[b, a % b]

\* n/d in lowest terms.
Lowest[n \in Int, d \in Nat] ==
    [num |-> n \div Gcd[Abs(n), d], den |-> d \div Gcd[Abs(n), d]]

\* An exact fraction in lowest terms (den > 0).
Frac(num, den) == Lowest[num, den]

\* The sum of column c over the rows of data, by halves.
ColumnSum(data, c) ==
    LET sum[lo \in 1..(Len(data) + 1), hi \in 0..Len(data)] ==
            IF lo > hi THEN 0
            ELSE IF lo = hi THEN data[lo][c]
            ELSE sum[lo, (lo + hi) \div 2] + sum[(lo + hi) \div 2 + 1, hi]
    IN  sum[1, Len(data)]

\* np.mean(metrics_data, axis=0).tolist()
Mean(data) == [c \in 1..5 |-> Frac(ColumnSum(data, c), Len(data))]

\* AnomalyDetector.__init__, server.py:103-110: the forest is not fitted.
NewEngine == [is_trained |-> FALSE, model |-> None, baseline_data |-> <<>>]

\* The size a training set must exceed, server.py:114.
TrainMin == 20

\* The length test of train with >= in place of >.
EnoughToTrain_AtLeast(metrics_data) == Len(metrics_data) >= TrainMin

\* server.py:114.
EnoughToTrain(metrics_data) == Len(metrics_data) > TrainMin

\* Train leaving the baseline of the earlier call in place.
Train_BaselineKept(e, metrics_data) ==
    IF EnoughToTrain(metrics_data)
    THEN [e EXCEPT !.is_trained = TRUE, !.model = Some(metrics_data)]
    ELSE e

\* Train stopping after the fit: flag and baseline are left as they were.
Train_ForestOnly(e, metrics_data) ==
    IF EnoughToTrain(metrics_data)
    THEN [e EXCEPT !.model = Some(metrics_data)]
    ELSE e

\* Train adding the new samples to those of the earlier calls.
Train_Incremental(e, metrics_data) ==
    LET seen == (IF e.model = None THEN <<>> ELSE e.model[1]) \o metrics_data IN
    IF EnoughToTrain(metrics_data)
    THEN [is_trained |-> TRUE, model |-> Some(seen), baseline_data |-> Mean(seen)]
    ELSE e

\* Train starting over when the samples are too few: the engine is left as
\* a new one.
Train_ResetWhenFew(e, metrics_data) ==
    IF EnoughToTrain(metrics_data)
    THEN [is_trained |-> TRUE, model |-> Some(metrics_data),
          baseline_data |-> Mean(metrics_data)]
    ELSE NewEngine

\* AnomalyDetector.train, server.py:112-119; a fitted forest is represented
\* by the data it was fitted on.
Train(e, metrics_data) ==
    IF EnoughToTrain(metrics_data)
    THEN [is_trained |-> TRUE, model |-> Some(metrics_data),
          baseline_data |-> Mean(metrics_data)]
    ELSE e

\* Confidence in hundredths; 50 is the 0.5 of the untrained and failed cases.
Untrained == [is_anomaly |-> FALSE, confidence |-> 50]

\* server.py:126-127: what the fitted forest does with a vector. It raises,
\* or it labels the vector (1 inlier, -1 outlier) and scores it; the scores
\* are in hundredths, two values of a forest's range.
Scores == {-20, -62}
Scorings ==
    {[raised |-> TRUE, prediction |-> 0, score |-> 0]}
    \cup {[raised |-> FALSE, prediction |-> p, score |-> s] : p \in {1, -1}, s \in Scores}

\* server.py:130: 1 / (1 + exp(score)), in hundredths, for the scores above.
Sigmoid(score) == IF score = -20 THEN 55 ELSE IF score = -62 THEN 65 ELSE 50
Confidences == {Sigmoid(s) : s \in Scores}

\* AnomalyDetector.detect, server.py:121-135, for one behaviour of the
\* forest: (False, 0.5) when untrained and in the except branch, otherwise
\* prediction == -1 and the sigmoid of the score.
DetectResult(e, scoring) ==
    IF ~e.is_trained THEN Untrained
    ELSE IF scoring.raised THEN [is_anomaly |-> FALSE, confidence |-> 50]
    ELSE [is_anomaly |-> scoring.prediction = -1, confidence |-> Sigmoid(scoring.score)]

\* detect without its try: what the forest raises leaves the call.
DetectRaises_NoTry(e, scoring) == e.is_trained /\ scoring.raised

\* server.py:125-135: both calls of the forest stand inside try, and the
\* except branch returns; no call of detect raises.
DetectRaises(e, scoring) == FALSE

\* The values a call can return: what the forest does with the vector is
\* not modelled, any of its behaviours can occur.
Detect(e, metric) == {DetectResult(e, scoring) : scoring \in Scorings}

\* The training sets of the direct calls: none, or around TrainMin samples
\* of which the last few are failure samples.
TrainSizes == {0} \cup (TrainMin - 1)..MaxTrain
RECURSIVE Repeat(_, _)
Repeat(x, n) == IF n = 0 THEN <<>> ELSE <<x>> \o Repeat(x, n - 1)
TrainingSets ==
    {Repeat(NormalSample, p[1] - p[2]) \o Repeat(FailureSample, p[2]) :
        p \in {q \in TrainSizes \X (0..MaxFailureSamples) : q[2] <= q[1]}}

\* The latest direct call: its name and argument, the engine it met, and
\* what it returned.
NoCall ==
    [call |-> "none", size |-> 0, data |-> <<>>, metric |-> <<>>,
     was_trained |-> FALSE, result |-> Untrained, anomaly |-> None]

\* anomaly_detector.train(metrics_data) called directly.
EngineTrain(metrics_data) ==
    /\ engine' = Train(engine, metrics_data)
    /\ ret' = [NoCall EXCEPT !.call = "train", !.size = Len(metrics_data),
                            !.data = metrics_data, !.was_trained = engine.is_trained]
    /\ UNCHANGED <<incidents, actions, now, reqs, everResolved, patches, decisions>>
    /\ UNCHANGED <<metrics, anomalies, simulator, feed, retrain, passes, analyses>>

\* anomaly_detector.detect(metric) called directly.
EngineDetect(metric) ==
    /\ \E result \in Detect(engine, metric) :
          ret' = [NoCall EXCEPT !.call = "detect", !.metric = metric, !.result = result,
                                !.was_trained = engine.is_trained]
    /\ UNCHANGED <<incidents, actions, now, reqs, everResolved, patches, decisions>>
    /\ UNCHANGED <<metrics, anomalies, engine, simulator, feed, retrain, passes, analyses>>

\* ----------------------------------------------------------- DataSimulator
\* server.py:146.
services == <<"api-gateway", "auth-service", "database", "cache", "worker">>

\* DataSimulator.__init__, server.py:145-149 (failure_start is not modelled:
\* it only sets how far into the failure ranges the samples lie).
NewSimulator == [failure_mode |-> FALSE, failure_service |-> None, injects |-> 0]

\* generate_metric stamping every metric with the first service.
GenerateMetric_FirstService(sim, service, t) ==
    [timestamp |-> t, service |-> services[1],
     features |-> IF sim.failure_mode /\ sim.failure_service = Some(service)
                  THEN FailureSample ELSE NormalSample]

\* DataSimulator.generate_metric, server.py:151-182.
GenerateMetric(sim, service, t) ==
    [timestamp |-> t, service |-> service,
     features |-> IF sim.failure_mode /\ sim.failure_service = Some(service)
                  THEN FailureSample ELSE NormalSample]

\* inject_failure, server.py:684-695 (400 for an unknown service).
InjectFailure(service) ==
    /\ simulator.injects < MaxInjects
    /\ simulator' = IF \E i \in 1..Len(services) : services[i] = service
                    THEN [failure_mode |-> TRUE, failure_service |-> Some(service),
                          injects |-> simulator.injects + 1]
                    ELSE [simulator EXCEPT !.injects = @ + 1]
    /\ UNCHANGED <<incidents, actions, now, reqs, everResolved, patches, decisions>>
    /\ UNCHANGED <<metrics, anomalies, engine, feed, retrain, passes, analyses, ret>>

\* clear_failure, server.py:697-701.
ClearFailure ==
    /\ simulator.injects < MaxInjects
    /\ simulator' = [failure_mode |-> FALSE, failure_service |-> None,
                     injects |-> simulator.injects + 1]
    /\ UNCHANGED <<incidents, actions, now, reqs, everResolved, patches, decisions>>
    /\ UNCHANGED <<metrics, anomalies, engine, feed, retrain, passes, analyses, ret>>

\* ------------------------------------------------- simulate_metrics_stream
\* server.py:212 and 215.
FeedInterval == 5

\* The task as created by startup_event: about to generate the first metric.
NewFeed == [pc |-> "insert", i |-> 1, wake |-> 0, failures |-> 0, cycles |-> 0]

\* server.py:206-210: the metric of the i-th service is generated and its
\* insert_one completes; after the last service the task sleeps.
FeedInsert ==
    /\ feed.pc = "insert"
    /\ metrics' = Append(metrics, GenerateMetric(simulator, services[feed.i], now))
    /\ feed' = IF feed.i < Len(services)
               THEN [feed EXCEPT !.i = @ + 1]
               ELSE [feed EXCEPT !.pc = "sleep", !.wake = now + FeedInterval,
                                 !.cycles = @ + 1]
    /\ UNCHANGED <<incidents, actions, now, reqs, everResolved, patches, decisions>>
    /\ UNCHANGED <<anomalies, engine, simulator, retrain, passes, analyses, ret>>

\* The except branch without its sleep: the next cycle is due at once.
FailedFeed_NoPause(f, t) ==
    [f EXCEPT !.pc = "sleep", !.wake = t, !.failures = @ + 1]

\* server.py:213-215: the error is logged and the task sleeps one interval.
FailedFeed(f, t) ==
    [f EXCEPT !.pc = "sleep", !.wake = t + FeedInterval, !.failures = @ + 1]

\* server.py:210 raising: insert_one fails.
FeedInsertFails ==
    /\ feed.pc = "insert"
    /\ feed.failures < MaxFailures
    /\ feed' = FailedFeed(feed, now)
    /\ UNCHANGED <<incidents, actions, now, reqs, everResolved, patches, decisions>>
    /\ UNCHANGED <<metrics, anomalies, engine, simulator, retrain, passes, analyses, ret>>

\* The sleep of either branch is over: the next cycle starts at the first
\* service.
FeedWake ==
    /\ feed.pc = "sleep"
    /\ now >= feed.wake
    /\ feed' = [feed EXCEPT !.pc = "insert", !.i = 1]
    /\ UNCHANGED <<incidents, actions, now, reqs, everResolved, patches, decisions>>
    /\ UNCHANGED <<metrics, anomalies, engine, simulator, retrain, passes, analyses, ret>>

\* -------------------------------------------------- train_anomaly_detector
\* server.py:221, 224 and 226.
RetrainInterval == 30
WindowLimit == 200
RetrainMin == 50

\* The task as created by startup_event: in its first sleep.
NewRetrain == [pc |-> "sleep", wake |-> RetrainInterval, window |-> <<>>,
               failures |-> 0, cycles |-> 0]

\* find(...).limit(...) given the threshold of the retrain as its limit.
Recent_ToThreshold(collection, limit) ==
    LET n == IF Len(collection) < RetrainMin THEN Len(collection) ELSE RetrainMin
    IN  [j \in 1..n |-> collection[Len(collection) + 1 - j]]

\* find({}).sort("timestamp", -1).limit(limit): the newest documents, newest
\* first. The feed stamps and inserts one metric after the other, so the
\* newest are the last inserted.
Recent(collection, limit) ==
    LET n == IF Len(collection) < limit THEN Len(collection) ELSE limit
    IN  [j \in 1..n |-> collection[Len(collection) + 1 - j]]

\* server.py:226.
EnoughToRetrain(window) == Len(window) > RetrainMin

\* server.py:228-231.
TrainingData(window) == [j \in 1..Len(window) |-> window[j].features]

\* server.py:221-224: the sleep is over and the find completes.
RetrainFind ==
    /\ retrain.pc = "sleep"
    /\ now >= retrain.wake
    /\ retrain' = [retrain EXCEPT !.pc = "fetched",
                                  !.window = Recent(metrics, WindowLimit)]
    /\ UNCHANGED <<incidents, actions, now, reqs, everResolved, patches, decisions>>
    /\ UNCHANGED <<metrics, anomalies, engine, simulator, feed, passes, analyses, ret>>

\* server.py:232-234: the find raises; the error is logged and the loop
\* goes round to its sleep.
RetrainFindFails ==
    /\ retrain.pc = "sleep"
    /\ now >= retrain.wake
    /\ retrain.failures < MaxFailures
    /\ retrain' = [retrain EXCEPT !.wake = now + RetrainInterval,
                                  !.failures = @ + 1, !.cycles = @ + 1]
    /\ UNCHANGED <<incidents, actions, now, reqs, everResolved, patches, decisions>>
    /\ UNCHANGED <<metrics, anomalies, engine, simulator, feed, passes, analyses, ret>>

\* server.py:226-231 and back to 221: with enough metrics the engine is
\* trained; the task sleeps again.
RetrainTrain ==
    /\ retrain.pc = "fetched"
    /\ \E training_data \in {TrainingData(retrain.window)} :
          engine' = IF EnoughToRetrain(retrain.window)
                    THEN Train(engine, training_data)
                    ELSE engine
    /\ retrain' = [retrain EXCEPT !.pc = "sleep", !.wake = now + RetrainInterval,
                                  !.window = <<>>, !.cycles = @ + 1]
    /\ UNCHANGED <<incidents, actions, now, reqs, everResolved, patches, decisions>>
    /\ UNCHANGED <<metrics, anomalies, simulator, feed, passes, analyses, ret>>

\* Both tasks sleep: time passes until the first of them is due.
Advance ==
    /\ feed.pc = "sleep" /\ retrain.pc = "sleep"
    /\ now < feed.wake /\ now < retrain.wake
    /\ now' = IF feed.wake < retrain.wake THEN feed.wake ELSE retrain.wake
    /\ UNCHANGED <<incidents, actions, reqs, everResolved, patches, decisions>>
    /\ UNCHANGED <<monitorVars, analyses>>

\* --------------------------------------------------------- detect_anomalies
\* judged: what the forest did with the metric found last (when it was
\* consulted) and what detect returned for it, if a metric was found.
NewPass == [pc |-> "find", s |-> 1, detected |-> <<>>, pending |-> None, judged |-> None]

\* find_one returning the oldest metric of the service: the sort is missing.
Latest_Oldest(collection, service) ==
    IF \E i \in 1..Len(collection) : collection[i].service = service
    THEN CHOOSE i \in 1..Len(collection) :
             /\ collection[i].service = service
             /\ \A j \in 1..(i - 1) : collection[j].service # service
    ELSE 0

\* find_one({"service": service}, sort=[("timestamp", -1)]): the position of
\* the newest metric of the service, 0 when it has none.
Latest(collection, service) ==
    IF \E i \in 1..Len(collection) : collection[i].service = service
    THEN CHOOSE i \in 1..Len(collection) :
             /\ collection[i].service = service
             /\ \A j \in (i + 1)..Len(collection) : collection[j].service # service
    ELSE 0

\* server.py:324: the engine's baseline, or the features when it has none.
BaselineFor(e, features) ==
    IF e.baseline_data # <<>> THEN e.baseline_data
    ELSE [c \in 1..5 |-> Frac(features[c], 1)]

\* server.py:325-328: abs(features[i] - baseline[i]) / (baseline[i] + 1).
Deviation(f, b) == Frac(Abs(f * b.den - b.num), b.num + b.den)

\* a/b < c/d for a, c >= 0 and b, d > 0, by comparing whole parts and then
\* the inverted remainders (no product is formed).
RECURSIVE RatioLess(_, _, _, _)
RatioLess(a, b, c, d) ==
    IF a \div b # c \div d THEN a \div b < c \div d
    ELSE IF c % d = 0 THEN FALSE
    ELSE IF a % b = 0 THEN TRUE
    ELSE RatioLess(d, c % d, b, a % b)

FracLess(x, y) == RatioLess(x.num, x.den, y.num, y.den)

\* argmax returning the last index of the largest deviation.
ArgMax_Last(deviations) ==
    CHOOSE i \in 1..Len(deviations) :
        /\ \A j \in 1..Len(deviations) : ~FracLess(deviations[i], deviations[j])
        /\ \A j \in (i + 1)..Len(deviations) : FracLess(deviations[j], deviations[i])

\* np.argmax, server.py:329: the first index of the largest deviation.
ArgMax(deviations) ==
    CHOOSE i \in 1..Len(deviations) :
        /\ \A j \in 1..Len(deviations) : ~FracLess(deviations[i], deviations[j])
        /\ \A j \in 1..(i - 1) : FracLess(deviations[j], deviations[i])

\* The thresholds of severity with >= in place of >.
Severity_AtLeast(confidence) ==
    IF confidence >= 80 THEN "critical" ELSE IF confidence >= 60 THEN "high" ELSE "medium"

\* server.py:334.
Severity(confidence) ==
    IF confidence > 80 THEN "critical" ELSE IF confidence > 60 THEN "high" ELSE "medium"

\* server.py:323-345: the Anomaly built from a metric judged anomalous.
NewAnomaly(e, metric, confidence) ==
    LET baseline == BaselineFor(e, metric.features)
        deviations == [c \in 1..5 |-> Deviation(metric.features[c], baseline[c])]
        max_deviation_idx == ArgMax(deviations)
    IN  [timestamp |-> metric.timestamp, service |-> metric.service,
         metric_type |-> metric_names[max_deviation_idx],
         severity |-> Severity(confidence), confidence |-> confidence,
         value |-> metric.features[max_deviation_idx],
         baseline |-> baseline[max_deviation_idx]]

\* server.py:323-345 applied directly to a metric and a confidence: the
\* Anomaly the pass builds once detect has judged the metric anomalous.
BuildAnomaly(metric, confidence) ==
    /\ ret' = [NoCall EXCEPT !.call = "anomaly", !.metric = metric.features,
                            !.was_trained = engine.is_trained,
                            !.anomaly = Some(NewAnomaly(engine, metric, confidence))]
    /\ UNCHANGED <<incidents, actions, now, reqs, everResolved, patches, decisions>>
    /\ UNCHANGED <<metrics, anomalies, engine, simulator, feed, retrain, passes, analyses>>

\* The pass moves on to the next service, or returns after the last.
NextService(q) ==
    IF q.s < Len(services) THEN [q EXCEPT !.pc = "find", !.s = @ + 1, !.pending = None]
    ELSE [q EXCEPT !.pc = "done", !.pending = None]

\* server.py:297-301: the request arrives and asks for the first service's
\* newest metric.
PassStart ==
    /\ Len(passes) < MaxPasses
    /\ passes' = Append(passes, NewPass)
    /\ UNCHANGED <<incidents, actions, now, reqs, everResolved, patches, decisions>>
    /\ UNCHANGED <<metrics, anomalies, engine, simulator, feed, retrain, analyses, ret>>

\* server.py:301-345: the find_one completes; without a metric the service is
\* skipped, otherwise the engine judges it and an anomaly is built. An
\* exception out of detect would end the pass in the handler's except branch
\* (server.py:358-360, status 500). scoring is what the forest does with
\* the metric's vector.
PassFind(r, scoring) ==
    LET q == passes[r]
        pos == Latest(metrics, services[q.s])
    IN  /\ q.pc = "find"
        /\ IF pos = 0
           THEN passes' = [passes EXCEPT ![r] = NextService([q EXCEPT !.judged = None])]
           ELSE    LET result == DetectResult(engine, scoring)
                       judged == Some([consulted |-> IF engine.is_trained THEN Some(scoring)
                                                     ELSE None,
                                       result |-> result])
                   IN  passes' = [passes EXCEPT ![r] =
                          IF DetectRaises(engine, scoring)
                          THEN [q EXCEPT !.pc = "failed", !.judged = judged]
                          ELSE IF result.is_anomaly
                          THEN [q EXCEPT !.pc = "insert", !.judged = judged,
                                   !.pending = Some(NewAnomaly(engine, metrics[pos],
                                                               result.confidence))]
                          ELSE NextService([q EXCEPT !.judged = judged])]
        /\ UNCHANGED <<incidents, actions, now, reqs, everResolved, patches, decisions>>
        /\ UNCHANGED <<metrics, anomalies, engine, simulator, feed, retrain, analyses, ret>>

\* The anomaly written over the stored one of its metric_type when there
\* is one (an upsert keyed by metric_type).
InsertAnomaly_Upsert(collection, doc) ==
    IF \E i \in 1..Len(collection) : collection[i].metric_type = doc.metric_type
    THEN [i \in 1..Len(collection) |->
             IF collection[i].metric_type = doc.metric_type THEN doc ELSE collection[i]]
    ELSE Append(collection, doc)

\* server.py:350: db.anomalies.insert_one adds the document.
InsertAnomaly(collection, doc) == Append(collection, doc)

\* server.py:348-352: the anomaly's insert_one completes.
PassInsert(r) ==
    LET q == passes[r] IN
    /\ q.pc = "insert"
    /\ anomalies' = InsertAnomaly(anomalies, q.pending[1])
    /\ passes' = [passes EXCEPT ![r] =
                     NextService([q EXCEPT !.detected = Append(@, Len(anomalies) + 1)])]
    /\ UNCHANGED <<incidents, actions, now, reqs, everResolved, patches, decisions>>
    /\ UNCHANGED <<metrics, engine, simulator, feed, retrain, analyses, ret>>

\* ------------------------------------------------------------ health_check
\* server.py:242-251: the "services" part of the body.
Health ==
    [anomaly_detector |-> IF engine.is_trained THEN "trained" ELSE "initializing",
     simulator |-> IF simulator.failure_mode THEN "active" ELSE "normal"]

\* -------------------------------------------------------- analyze_incident
NewAnalysis == [pc |-> "idle", incident_id |-> ForeignId]

\* server.py:451-499: the incident is looked up, 404 when absent; otherwise
\* its anomalies and recent metrics are read and the generator is called.
AnalyzeStart(incident_id) ==
    /\ Len(analyses) < MaxAnalyses
    /\ analyses' = Append(analyses,
                      IF FindOne(incidents, incident_id) = 0
                      THEN [NewAnalysis EXCEPT !.pc = "notfound", !.incident_id = incident_id]
                      ELSE [NewAnalysis EXCEPT !.pc = "llm", !.incident_id = incident_id])
    /\ UNCHANGED <<incidents, actions, now, reqs, everResolved, patches, decisions>>
    /\ UNCHANGED monitorVars

\* server.py:502-506: {"$set": {"ai_explanation": ...}} on one document.
SetExplanation(doc, text) == [doc EXCEPT !.ai_explanation = Some(text)]

\* server.py:499-510: the response arrives and is stored as ai_explanation.
AnalyzeRespond(r, text) ==
    LET i == FindOne(incidents, analyses[r].incident_id) IN
    /\ analyses[r].pc = "llm"
    /\ incidents' = IF i = 0 THEN incidents
                    ELSE [incidents EXCEPT ![i] = SetExplanation(@, text)]
    /\ analyses' = [analyses EXCEPT ![r].pc = "done"]
    /\ UNCHANGED <<actions, now, reqs, everResolved, patches, decisions>>
    /\ UNCHANGED monitorVars

\* ------------------------------------------------------------ get_incident
\* server.py:408-420: a read.
GetIncident(incident_id) == UNCHANGED dataVars

\* ------------------------------------------------------------------ replies
\* The reply sent by the latest step; NoReply when it sent none.
NoReply == [op |-> "none", id |-> ForeignId, status |-> 0]

\* "except HTTPException: raise" missing: the 404 falls to the handler of
\* Exception.
LookupStatus_Swallowed(found) == IF found THEN 200 ELSE 500

\* The status of a handler that looks a document up: HTTPException(404)
\* when there is none, passed on by "except HTTPException: raise".
LookupStatus(found) == IF found THEN 200 ELSE 404

Answer(op, id, status) == reply' = [op |-> op, id |-> id, status |-> status]
Silent == reply' = NoReply

\* -------------------------------------------------------------- event loop
\* The generator called without "await": the thread stays inside the request
\* until the answer is there.
HoldsLoop_Blocking(pc) == pc = "llm"

\* server.py:499, 548: the generator is called with "await"; a request that
\* waits for its answer has handed the event loop back, and so has a
\* request at any other position.
HoldsLoop(pc) == FALSE

\* The event loop is free to run a background task or another request.
LoopFree ==
    /\ \A r \in 1..Len(reqs) : ~HoldsLoop(reqs[r].pc)
    /\ \A r \in 1..Len(analyses) : ~HoldsLoop(analyses[r].pc)

\* ------------------------------------------------------------------- clock
Tick ==
    /\ now < MaxTime
    /\ now' = now + 1
    /\ UNCHANGED <<incidents, actions, reqs, everResolved, patches, decisions>>
    /\ UNCHANGED <<monitorVars, analyses>>

\* ----------------------------------------------------------- specification
\* The workflow side after construction: empty collections, no request yet.
InitWorkflow ==
    /\ incidents = <<>>
    /\ actions = <<>>
    /\ now = 0
    /\ reqs = <<>>
    /\ everResolved = <<>>
    /\ patches = 0
    /\ decisions = 0
    /\ analyses = <<>>
    /\ reply = NoReply

\* The monitoring side after startup_event, apart from db.metrics.
InitMonitor ==
    /\ anomalies = <<>>
    /\ engine = NewEngine
    /\ simulator = NewSimulator
    /\ feed = NewFeed
    /\ retrain = NewRetrain
    /\ passes = <<>>
    /\ ret = NoCall

Init == InitWorkflow /\ InitMonitor /\ metrics = <<>>

Next ==
    \/ \E body \in CreateBodies : CreateIncident(body) /\ UNCHANGED reply
    \/ \E id \in KnownIncidentIds :
          \E body \in IF FindOne(incidents, id) = 0 THEN {NoMatchBody} ELSE PatchBodies :
             UpdateIncident(id, body) /\ UNCHANGED reply
    \/ \E id \in KnownIncidentIds :
          Len(reqs) < MaxRecommends /\ RecommendStart(id) /\ UNCHANGED reply
    \/ \E r \in Reqs, response \in Responses :
          RecommendRespond(r, response) /\ UNCHANGED reply
    \/ \E r \in Reqs : RecommendInsert(r) /\ UNCHANGED reply
    \/ \E id \in KnownActionIds, by \in Approvers :
          ApproveAction(id, by) /\ UNCHANGED reply
    \/ \E id \in KnownActionIds : RejectAction(id) /\ UNCHANGED reply
    \/ Tick /\ UNCHANGED reply

Spec == Init /\ [][Next]_vars

\* The incident lifecycle alone: create_incident and update_incident.
NextIncident ==
    \/ \E body \in CreateBodies : CreateIncident(body) /\ UNCHANGED reply
    \/ \E id \in KnownIncidentIds :
          \E body \in IF FindOne(incidents, id) = 0 THEN {NoMatchBody} ELSE PatchBodies :
             UpdateIncident(id, body) /\ UNCHANGED reply
    \/ Tick /\ UNCHANGED reply

SpecIncident == Init /\ [][NextIncident]_vars

\* The request handlers with their replies, one body and one response each.
LookupCreateBody ==
    [title |-> "Test Performance Issue", severity |-> "high",
     service |-> "api-gateway", anomaly_ids |-> <<>>,
     status |-> None, resolved_at |-> None, root_cause |-> None]
LookupPatchBodies ==
    {[status |-> Some("resolved"), resolved_at |-> None, id |-> None],
     [status |-> None, resolved_at |-> None, id |-> Some(ForeignId)]}
LookupResponses == {<<"[", "objA", "]">>, <<"[", "objB", "]">>}
AnalysisTexts == {"analysis"}
NextLookup ==
    \/ CreateIncident(LookupCreateBody)
          /\ Answer("create_incident", NewId(incidents), 200)
    \/ \E id \in KnownIncidentIds :
          GetIncident(id)
             /\ Answer("get_incident", id, LookupStatus(FindOne(incidents, id) # 0))
    \/ \E id \in KnownIncidentIds :
          \E body \in IF FindOne(incidents, id) = 0 THEN {NoMatchBody}
                      ELSE LookupPatchBodies :
             UpdateIncident(id, body)
                /\ Answer("update_incident", id, LookupStatus(FindOne(incidents, id) # 0))
    \/ \E id \in KnownIncidentIds :
          AnalyzeStart(id)
             /\ IF FindOne(incidents, id) = 0
                THEN Answer("analyze_incident", id, LookupStatus(FALSE))
                ELSE Silent
    \/ \E r \in 1..Len(analyses), text \in AnalysisTexts :
          AnalyzeRespond(r, text)
             /\ Answer("analyze_incident", analyses[r].incident_id, 200)
    \/ \E id \in KnownIncidentIds :
          Len(reqs) < MaxRecommends /\ RecommendStart(id)
             /\ IF FindOne(incidents, id) = 0
                THEN Answer("generate_recommendations", id, LookupStatus(FALSE))
                ELSE Silent
    \/ \E r \in Reqs, response \in LookupResponses :
          RecommendRespond(r, response) /\ Silent
    \/ \E r \in Reqs :
          RecommendInsert(r)
             /\ IF reqs'[r].pc = "done"
                THEN Answer("generate_recommendations", reqs[r].incident_id, 200)
                ELSE IF reqs'[r].pc = "failed"
                THEN Answer("generate_recommendations", reqs[r].incident_id, 500)
                ELSE Silent
    \/ \E id \in KnownActionIds, by \in Approvers :
          ApproveAction(id, by)
             /\ Answer("approve_action", id, LookupStatus(FindOne(actions, id) # 0))
    \/ \E id \in KnownActionIds :
          RejectAction(id)
             /\ Answer("reject_action", id, LookupStatus(FindOne(actions, id) # 0))

SpecLookup == Init /\ [][NextLookup]_vars

\* The engine alone, called directly.
NextEngine ==
    \/ \E metrics_data \in TrainingSets : EngineTrain(metrics_data) /\ UNCHANGED reply
    \/ \E metric \in Samples : EngineDetect(metric) /\ UNCHANGED reply

SpecEngine == Init /\ [][NextEngine]_vars

\* db.metrics outlives the process: at startup it holds what earlier runs
\* left, here some number of complete cycles of normal samples.
InitCycles == {0, 4, 34}
History(cycles) ==
    [j \in 1..(cycles * Len(services)) |->
        GenerateMetric(NewSimulator, services[((j - 1) % Len(services)) + 1], -1)]

InitHistory ==
    /\ InitWorkflow
    /\ InitMonitor
    /\ metrics \in {History(c) : c \in InitCycles}

\* The two background tasks alone, with the failures of persistence.
NextLoops ==
    \/ FeedInsert /\ UNCHANGED reply
    \/ FeedInsertFails /\ UNCHANGED reply
    \/ FeedWake /\ UNCHANGED reply
    \/ RetrainFind /\ UNCHANGED reply
    \/ RetrainFindFails /\ UNCHANGED reply
    \/ RetrainTrain /\ UNCHANGED reply
    \/ Advance /\ now' <= MaxClock /\ UNCHANGED reply

SpecLoops == InitHistory /\ [][NextLoops]_vars

\* The background tasks with the demo switches.
InjectServices == {"database", "mailer"}
NextDemo ==
    \/ FeedInsert /\ UNCHANGED reply
    \/ FeedWake /\ UNCHANGED reply
    \/ RetrainFind /\ UNCHANGED reply
    \/ RetrainTrain /\ UNCHANGED reply
    \/ Advance /\ now' <= MaxClock /\ UNCHANGED reply
    \/ \E service \in InjectServices : InjectFailure(service) /\ UNCHANGED reply
    \/ ClearFailure /\ UNCHANGED reply

SpecDemo == InitHistory /\ [][NextDemo]_vars

\* The background tasks with detection passes.
NextDetect ==
    \/ FeedInsert /\ UNCHANGED reply
    \/ FeedWake /\ UNCHANGED reply
    \/ RetrainFind /\ UNCHANGED reply
    \/ RetrainTrain /\ UNCHANGED reply
    \/ Advance /\ now' <= MaxClock /\ UNCHANGED reply
    \/ PassStart /\ UNCHANGED reply
    \/ \E r \in 1..Len(passes), scoring \in Scorings :
          PassFind(r, scoring) /\ UNCHANGED reply
    \/ \E r \in 1..Len(passes) : PassInsert(r) /\ UNCHANGED reply

SpecDetect == InitHistory /\ [][NextDetect]_vars

\* The background tasks and the handlers while the generator stays silent:
\* no step delivers a response to a call that was made.
Lookups ==
    \E id \in KnownIncidentIds :
       LoopFree /\ GetIncident(id)
          /\ Answer("get_incident", id, LookupStatus(FindOne(incidents, id) # 0))
NextPending ==
    \/ LoopFree /\ FeedInsert /\ UNCHANGED reply
    \/ LoopFree /\ FeedWake /\ UNCHANGED reply
    \/ LoopFree /\ RetrainFind /\ UNCHANGED reply
    \/ LoopFree /\ RetrainTrain /\ UNCHANGED reply
    \/ Advance /\ now' <= MaxClock /\ UNCHANGED reply
    \/ LoopFree /\ CreateIncident(LookupCreateBody)
          /\ Answer("create_incident", NewId(incidents), 200)
    \/ Lookups
    \/ \E id \in KnownIncidentIds :
          LoopFree /\ AnalyzeStart(id)
             /\ IF FindOne(incidents, id) = 0
                THEN Answer("analyze_incident", id, LookupStatus(FALSE))
                ELSE Silent
    \/ \E id \in KnownIncidentIds :
          LoopFree /\ Len(reqs) < MaxRecommends /\ RecommendStart(id)
             /\ IF FindOne(incidents, id) = 0
                THEN Answer("generate_recommendations", id, LookupStatus(FALSE))
                ELSE Silent

\* server.py:785-791: both tasks were handed to the event loop, which runs
\* a task that can run; time passes.
FairLoops ==
    /\ WF_vars(LoopFree /\ FeedInsert /\ UNCHANGED reply)
    /\ WF_vars(LoopFree /\ FeedWake /\ UNCHANGED reply)
    /\ WF_vars(LoopFree /\ RetrainFind /\ UNCHANGED reply)
    /\ WF_vars(LoopFree /\ RetrainTrain /\ UNCHANGED reply)
    /\ WF_vars(Advance /\ now' <= MaxClock /\ UNCHANGED reply)

SpecPending == Init /\ [][NextPending]_vars /\ FairLoops

\* The construction of an anomaly alone, on an engine trained directly.
\* The confidences lie on both sides of the two thresholds and on them; the
\* vectors are the two samples and two that deviate equally, by one
\* (baseline + 1), in two dimensions of the normal baseline.
GradeConfidences == {50, 55, 60, 61, 65, 80, 81, 95}
AttributionSamples ==
    Samples \cup {<<71, 91, 100, 1, 300>>, <<35, 91, 201, 1, 300>>}
NextAnomaly ==
    \/ \E metrics_data \in TrainingSets : EngineTrain(metrics_data) /\ UNCHANGED reply
    \/ \E features \in AttributionSamples, confidence \in GradeConfidences :
          BuildAnomaly([timestamp |-> now, service |-> services[1],
                        features |-> features], confidence)
             /\ UNCHANGED reply

SpecAnomaly == Init /\ [][NextAnomaly]_vars

\* Every operation that writes a collection, side by side: the two
\* background tasks, a detection pass, and the handlers of the incident
\* workflow with one body and one response each. db.metrics starts with
\* enough samples for the retrain at 30 s to train; from then on the forest
\* labels every vector an outlier. The requests arrive from the time
\* the first retrain is due, so the workflow runs beside the retrain, the
\* feed and the pass that stores anomalies.
StoreFrom == RetrainInterval
StoreBody == [status |-> Some("resolved"), resolved_at |-> Some("marker"), id |-> None]
StoreResponse == <<"[", "objA", "]">>
StoreScorings == {[raised |-> FALSE, prediction |-> -1, score |-> -62]}
InitStore ==
    /\ InitWorkflow
    /\ InitMonitor
    /\ metrics = History(StoreCycles)
NextStore ==
    \/ FeedInsert /\ UNCHANGED reply
    \/ FeedWake /\ UNCHANGED reply
    \/ RetrainFind /\ UNCHANGED reply
    \/ RetrainTrain /\ UNCHANGED reply
    \/ Advance /\ now' <= MaxClock /\ UNCHANGED reply
    \/ now >= StoreFrom /\ PassStart /\ UNCHANGED reply
    \/ \E r \in 1..Len(passes), scoring \in StoreScorings :
          PassFind(r, scoring) /\ UNCHANGED reply
    \/ \E r \in 1..Len(passes) : PassInsert(r) /\ UNCHANGED reply
    \/ now >= StoreFrom /\ CreateIncident(LookupCreateBody) /\ UNCHANGED reply
    \/ \E i \in 1..Len(incidents) :
          UpdateIncident(incidents[i].id, StoreBody) /\ UNCHANGED reply
    \/ \E i \in 1..Len(incidents) : AnalyzeStart(incidents[i].id) /\ UNCHANGED reply
    \/ \E r \in 1..Len(analyses), text \in AnalysisTexts :
          AnalyzeRespond(r, text) /\ UNCHANGED reply
    \/ \E i \in 1..Len(incidents) :
          Len(reqs) < MaxRecommends /\ RecommendStart(incidents[i].id)
             /\ UNCHANGED reply
    \/ \E r \in Reqs : RecommendRespond(r, StoreResponse) /\ UNCHANGED reply
    \/ \E r \in Reqs : RecommendInsert(r) /\ UNCHANGED reply
    \/ \E i \in 1..Len(actions), by \in Approvers :
          ApproveAction(actions[i].id, by) /\ UNCHANGED reply
    \/ \E i \in 1..Len(actions) : RejectAction(actions[i].id) /\ UNCHANGED reply

SpecStore == InitStore /\ [][NextStore]_vars

\* Recommendation requests for one incident, one after another or at the
\* same time, with approvals and rejections between them; the responses are
\* a list of one proposal and a text without a list (three fallback
\* proposals). A patch may give the incident another id in between.
BatchResponses == {<<"[", "objA", "]">>, <<"txt">>}
BatchPatch == [status |-> None, resolved_at |-> None, id |-> Some(ForeignId)]
NextBatches ==
    \/ CreateIncident(LookupCreateBody) /\ UNCHANGED reply
    \/ \E i \in 1..Len(incidents) :
          UpdateIncident(incidents[i].id, BatchPatch) /\ UNCHANGED reply
    \/ \E i \in 1..Len(incidents) :
          Len(reqs) < MaxBatches /\ RecommendStart(incidents[i].id) /\ UNCHANGED reply
    \/ \E r \in Reqs, response \in BatchResponses :
          RecommendRespond(r, response) /\ UNCHANGED reply
    \/ \E r \in Reqs : RecommendInsert(r) /\ UNCHANGED reply
    \/ \E i \in 1..Len(actions), by \in Approvers :
          ApproveAction(actions[i].id, by) /\ UNCHANGED reply
    \/ \E i \in 1..Len(actions) : RejectAction(actions[i].id) /\ UNCHANGED reply

SpecBatches == Init /\ [][NextBatches]_vars

\* The last second the two tasks are followed to: the retrain cycles needed
\* when the first comes too early and MaxFailures of them fail to read
\* (server.py:221).
FairHorizon == (MaxFailures + 2) * RetrainInterval

\* The two background tasks, started on an empty db.metrics and meeting at
\* most MaxFailures failures of persistence between them. The event loop runs
\* a task that can run and time passes (server.py:785-791).
NextFair ==
    \/ FeedInsert /\ UNCHANGED reply
    \/ feed.failures + retrain.failures < MaxFailures
          /\ FeedInsertFails /\ UNCHANGED reply
    \/ FeedWake /\ UNCHANGED reply
    \/ RetrainFind /\ UNCHANGED reply
    \/ feed.failures + retrain.failures < MaxFailures
          /\ RetrainFindFails /\ UNCHANGED reply
    \/ RetrainTrain /\ UNCHANGED reply
    \/ Advance /\ now' <= FairHorizon /\ UNCHANGED reply
FairTasks ==
    /\ WF_vars(FeedInsert /\ UNCHANGED reply)
    /\ WF_vars(FeedWake /\ UNCHANGED reply)
    /\ WF_vars(RetrainFind /\ UNCHANGED reply)
    /\ WF_vars(RetrainTrain /\ UNCHANGED reply)
    /\ WF_vars(Advance /\ now' <= FairHorizon /\ UNCHANGED reply)

SpecFair == Init /\ [][NextFair]_vars /\ FairTasks

\* ================================================================== claims
Terminal == {"approved", "rejected"}

\* C1: a terminal Action status is never re-decided: once an action is
\* approved or rejected, no later request changes its status.
C1_TerminalStatusKept ==
    [][\A i \in 1..Len(actions) :
          actions[i].status \in Terminal => actions'[i].status = actions[i].status]_vars

\* C2: in every reachable state, an action whose approved_by or executed_at
\* is set has status approved.
C2_ApprovalFieldsOnlyWhenApproved ==
    \A i \in 1..Len(actions) :
        (actions[i].approved_by # None \/ actions[i].executed_at # None)
            => actions[i].status = "approved"

\* C3: in every reachable state, an incident's resolved_at is set if and
\* only if its status has been set to resolved at least once.
C3_ResolvedAtIffEverResolved ==
    \A i \in 1..Len(incidents) :
        (incidents[i].resolved_at # None) <=> everResolved[i]

\* C4: once resolved_at is set it stays set and keeps its first value (first
\* resolution wins), unless it is explicitly cleared.
C4_FirstResolutionWins ==
    [][\A i \in 1..Len(incidents) :
          incidents[i].resolved_at # None
              => incidents'[i].resolved_at \in {incidents[i].resolved_at, None}]_vars

Rank(status) ==
    IF status = "open" THEN 0 ELSE IF status = "investigating" THEN 1 ELSE 2

\* C5: an incident's status is always open, investigating or resolved and
\* only moves forward along open -> investigating -> resolved.
C5_StatusForwardOnly ==
    [][\A i \in 1..Len(incidents) :
          /\ incidents'[i].status \in Statuses
          /\ Rank(incidents[i].status) <= Rank(incidents'[i].status)]_vars

\* C6: every incident is created with status open and with resolved_at,
\* root_cause, ai_explanation and recommendations unset, whatever the create
\* request carries.
C6_CreatedOpen ==
    [][Len(incidents') > Len(incidents) =>
          LET doc == incidents'[Len(incidents')] IN
          /\ Len(incidents') = Len(incidents) + 1
          /\ doc.status = "open"
          /\ doc.resolved_at = None
          /\ doc.root_cause = None
          /\ doc.ai_explanation = None
          /\ doc.recommendations = None]_vars

C6_Witness ==
    \E i \in 1..Len(incidents) :
        /\ incidents[i].status = "open"
        /\ incidents[i].resolved_at = None
        /\ incidents[i].recommendations = None
        /\ patches = 0

\* C7: every action is created by recommendation generation for an incident
\* in the store, starts pending with approved_by and executed_at unset, and in
\* every reachable state its incident_id is the id of a stored incident.
C7_ActionsOwnedByStoredIncident ==
    \A a \in 1..Len(actions) :
        \E i \in 1..Len(incidents) : incidents[i].id = actions[a].incident_id

\* C8: approving an existing pending action sets its status to approved, its
\* approved_by to the approver of the request and its executed_at to a value,
\* and changes no other field of it and no other action.
C8_ApproveEffect ==
    [][\A id \in KnownActionIds, by \in Approvers :
          LET i == FindOne(actions, id) IN
          (ApproveAction(id, by) /\ i # 0 /\ actions[i].status = "pending") =>
              /\ Len(actions') = Len(actions)
              /\ actions'[i].status = "approved"
              /\ actions'[i].approved_by = Some(by)
              /\ actions'[i].executed_at # None
              /\ actions'[i].id = actions[i].id
              /\ actions'[i].incident_id = actions[i].incident_id
              /\ actions'[i].action = actions[i].action
              /\ actions'[i].description = actions[i].description
              /\ actions'[i].risk_level = actions[i].risk_level
              /\ actions'[i].impact = actions[i].impact
              /\ actions'[i].created_at = actions[i].created_at
              /\ \A j \in 1..Len(actions) : j # i => actions'[j] = actions[j]]_vars

C8_Witness ==
    \E i \in 1..Len(actions) :
        /\ actions[i].status = "approved"
        /\ actions[i].approved_by = Some("alice")
        /\ actions[i].executed_at # None
        /\ \E j \in 1..Len(actions) : j # i /\ actions[j].status = "pending"

\* The three labels of the fallback list, in order.
FallbackLabels == <<"Scale Resources", "Restart Service", "Review Recent Changes">>

C10_UnparsableGivesFallback3 ==
    \A r \in 1..Len(reqs) :
        reqs[r].kind = "unparsable" =>
            /\ reqs[r].recs = Fallback3
            /\ reqs[r].pc = "done" => Len(reqs[r].made) = 3

\* C11: an existing incident's recommendation request never ends in an error
\* because of what the response says: whatever the response text, the request
\* succeeds.
C11_NoErrorFromResponse ==
    \A r \in Reqs : reqs[r].pc # "failed"

\* C12: a recommendation request that accepted a list of n proposals creates
\* exactly n actions for its incident, each pending when created, in list
\* order, each carrying its proposal's four fields; when the request returns
\* the incident's recommendations field holds that list.
C12_AcceptedListBecomesActions ==
    [][\A r \in Reqs :
          LET q == reqs[r]
              p == reqs'[r]
          IN  /\ (q.pc = "insert" /\ p.k = q.k + 1) =>
                    /\ actions' = Append(actions, actions'[Len(actions')])
                    /\ p.made = Append(q.made, Len(actions'))
                    /\ LET a == actions'[Len(actions')]
                           rec == q.recs[q.k]
                       IN  /\ a.incident_id = q.incident_id
                           /\ a.status = "pending"
                           /\ Some(a.action) = rec.action
                           /\ Some(a.description) = rec.description
                           /\ Some(a.risk_level) = rec.risk_level
                           /\ Some(a.impact) = rec.impact
              /\ (q.pc = "insert" /\ p.pc = "done") =>
                    /\ Len(p.made) = Len(p.recs)
                    /\ \E i \in 1..Len(incidents') :
                          /\ incidents'[i].id = p.incident_id
                          /\ incidents'[i].recommendations = Some(p.recs)
      ]_vars

\* C13: a train call with 20 or fewer samples leaves the engine as it was
\* (flag, forest and baseline), and while the engine is untrained every
\* detect call returns exactly (False, 0.5) and leaves the engine as it was.
C13_TwentyOrFewerIsNoOp ==
    [][/\ (ret'.call = "train" /\ ret'.size <= 20) => engine' = engine
       /\ (ret'.call = "detect" /\ ~engine.is_trained) =>
              /\ ret'.result = [is_anomaly |-> FALSE, confidence |-> 50]
              /\ engine' = engine
      ]_vars

\* A train call with exactly 20 samples has returned and the engine is
\* untrained.
C13_Witness ==
    /\ ret.call = "train" /\ ret.size = 20
    /\ ~engine.is_trained /\ engine.model = None /\ engine.baseline_data = <<>>

\* C14 as stated: a train call is a no-op exactly when fewer than 20 samples
\* are supplied; with 20 or more it replaces forest and baseline and marks
\* the engine trained.
C14_TrainsFromTwenty ==
    [][ret'.call = "train" =>
          IF ret'.size < 20
          THEN engine' = engine
          ELSE /\ engine'.is_trained
               /\ engine'.model # None
               /\ Len(engine'.model[1]) = ret'.size
               /\ engine'.baseline_data = Mean(engine'.model[1])
      ]_vars

\* C14 amended: a train call is a no-op exactly when 20 or fewer samples are
\* supplied; with 21 or more it replaces forest and baseline (the column
\* means of the samples) and marks the engine trained.
C14_TrainsAboveTwenty ==
    [][ret'.call = "train" =>
          IF ret'.size <= 20
          THEN engine' = engine
          ELSE /\ engine'.is_trained
               /\ engine'.model # None
               /\ Len(engine'.model[1]) = ret'.size
               /\ Len(engine'.baseline_data) = 5
               /\ \A c \in 1..5 :
                     engine'.baseline_data[c].num * ret'.size
                        = ColumnSum(engine'.model[1], c) * engine'.baseline_data[c].den
      ]_vars

\* A train call with exactly 21 samples has returned and trained the engine
\* on them.
C14_Witness ==
    /\ ret.call = "train" /\ ret.size = 21
    /\ engine.is_trained /\ engine.model # None /\ Len(engine.model[1]) = 21
    /\ engine.baseline_data # <<>>

\* C15: each retrain cycle reads at most the 200 newest metrics and trains
\* the engine on them if and only if at least 50 were read (in particular
\* exactly 50); with fewer the cycle leaves the engine as it was.
C15_RetrainsFromFifty ==
    [][/\ (retrain.pc = "sleep" /\ retrain'.pc = "fetched") =>
              /\ Len(retrain'.window) <= 200
              /\ Len(retrain'.window) = Len(metrics) \/ Len(retrain'.window) = 200
              /\ \A j \in 1..Len(retrain'.window) :
                    retrain'.window[j] = metrics[Len(metrics) + 1 - j]
       /\ (retrain.pc = "fetched" /\ retrain'.pc = "sleep") =>
              IF Len(retrain.window) >= 50
              THEN /\ engine'.is_trained
                   /\ engine'.model # None
                   /\ Len(engine'.model[1]) = Len(retrain.window)
              ELSE engine' = engine
      ]_vars

\* C16 as stated: every cycle of the feed persists exactly one metric per
\* service, the five in enumeration order, and nothing else inserts,
\* changes or deletes a metric.
C16_EveryCycleWritesFive ==
    [][/\ (feed.pc = "insert" /\ feed'.pc = "sleep") =>
              /\ feed.i = 5
              /\ Len(metrics') = Len(metrics) + 1
       /\ metrics' # metrics =>
              /\ feed.pc = "insert"
              /\ metrics' = Append(metrics, metrics'[Len(metrics')])
              /\ metrics'[Len(metrics')].service = services[feed.i]
              /\ feed'.i = feed.i + 1 \/ (feed.i = 5 /\ feed'.pc = "sleep")
      ]_vars

\* C16 amended: every cycle of the feed that meets no persistence failure
\* persists exactly one metric per service, the five in enumeration order; a
\* cycle that meets one has persisted the metrics of the services before the
\* failing one and persists no more; nothing else inserts, changes or
\* deletes a metric.
C16_UnfailedCycleWritesFive ==
    [][/\ (feed.pc = "insert" /\ feed'.pc = "sleep") =>
              \/ /\ feed.i = 5
                 /\ Len(metrics') = Len(metrics) + 1
                 /\ feed'.failures = feed.failures
              \/ /\ feed'.failures = feed.failures + 1
                 /\ metrics' = metrics
       /\ metrics' # metrics =>
              /\ feed.pc = "insert"
              /\ metrics' = Append(metrics, metrics'[Len(metrics')])
              /\ metrics'[Len(metrics')].service = services[feed.i]
              /\ feed'.i = feed.i + 1 \/ (feed.i = 5 /\ feed'.pc = "sleep")
      ]_vars

\* A cycle has failed at its third service, after its first two metrics
\* were persisted, and an earlier cycle was completed.
C16_Witness ==
    /\ feed.pc = "sleep" /\ feed.i = 3 /\ feed.failures = 1 /\ feed.cycles >= 1
    /\ Len(metrics) % 5 = 2
    /\ metrics[Len(metrics)].service = services[2]
    /\ metrics[Len(metrics) - 1].service = services[1]

\* C17: neither background task ends on a failed iteration: the feed sleeps
\* one interval of 5 and then starts a new cycle at the first service; the
\* retrain task starts its next cycle after its interval of 30, no longer.
C17_LoopsSurviveFailure ==
    [][/\ feed'.pc \in {"insert", "sleep"}
       /\ retrain'.pc \in {"sleep", "fetched"}
       /\ feed'.failures # feed.failures =>
              feed'.pc = "sleep" /\ feed'.wake = now + 5
       /\ (feed.pc = "sleep" /\ feed'.pc = "insert") =>
              feed'.i = 1 /\ now >= feed.wake
       /\ retrain'.failures # retrain.failures =>
              retrain'.pc = "sleep" /\ retrain'.wake = now + 30
       /\ (feed.pc = "sleep" /\ now >= feed.wake) => ENABLED FeedWake
      ]_vars

\* Both tasks have met a failure; the feed has slept and started a new
\* cycle, the retrain task waits for second 60.
C17_Witness ==
    /\ feed.failures = 1 /\ feed.pc = "insert" /\ feed.i = 1
    /\ retrain.failures = 1 /\ retrain.pc = "sleep" /\ retrain.wake = 60

\* Calls made to the narrative generator so far.
LlmCalls ==
    Cardinality({r \in Reqs : reqs[r].pc # "notfound"})
       + Cardinality({r \in 1..Len(analyses) : analyses[r].pc # "notfound"})

\* C18: a get, patch, analyze or recommend request naming no stored incident
\* and an approve or reject request naming no stored action are answered 404,
\* and a request answered 404 leaves incidents, actions, anomalies and
\* metrics as they were and makes no call to the narrative generator.
C18_AbsentIdIsNotFound ==
    [][/\ (/\ reply'.op \in {"get_incident", "update_incident"}
           /\ \A i \in 1..Len(incidents) : incidents[i].id # reply'.id)
              => reply'.status = 404
       /\ (/\ reply'.op \in {"approve_action", "reject_action"}
           /\ \A i \in 1..Len(actions) : actions[i].id # reply'.id)
              => reply'.status = 404
       /\ (/\ Len(reqs') > Len(reqs)
           /\ \A i \in 1..Len(incidents) :
                 incidents[i].id # reqs'[Len(reqs')].incident_id)
              => /\ reply'.op = "generate_recommendations"
                 /\ reply'.id = reqs'[Len(reqs')].incident_id
                 /\ reply'.status = 404
       /\ (/\ Len(analyses') > Len(analyses)
           /\ \A i \in 1..Len(incidents) :
                 incidents[i].id # analyses'[Len(analyses')].incident_id)
              => /\ reply'.op = "analyze_incident"
                 /\ reply'.id = analyses'[Len(analyses')].incident_id
                 /\ reply'.status = 404
       /\ reply'.status = 404 =>
              /\ incidents' = incidents /\ actions' = actions
              /\ anomalies' = anomalies /\ metrics' = metrics
              /\ LlmCalls' = LlmCalls
      ]_vars

\* An approve request naming no stored action was answered 404 while an
\* incident and an action were stored.
C18_Witness ==
    /\ reply.op = "approve_action" /\ reply.status = 404
    /\ incidents # <<>> /\ actions # <<>>
    /\ \A i \in 1..Len(actions) : actions[i].id # reply.id

FeedRunning == feed.pc \in {"insert", "sleep"}

\* C19: the health check reports the engine trained exactly when its flag
\* is set and the feed active exactly when the feed task is running,
\* whatever the demo failure switch says.
C19_HealthReportsFeed ==
    /\ Health.anomaly_detector = "trained" <=> engine.is_trained
    /\ Health.simulator = "active" <=> FeedRunning

\* C20: whenever a detection pass may call detect and attribute, the
\* engine's forest, flag and baseline come from one completed train call, or
\* all three are the initial ones.
C20_EngineSeenWhole ==
    \/ /\ ~engine.is_trained /\ engine.model = None /\ engine.baseline_data = <<>>
    \/ /\ engine.is_trained /\ engine.model # None
       /\ engine.baseline_data = Mean(engine.model[1])

\* A pass has judged its third metric anomalous against the engine the
\* retrain task trained, and built the anomaly from that engine's baseline.
C20_Witness ==
    /\ engine.is_trained /\ retrain.cycles = 1
    /\ \E r \in 1..Len(passes) :
          /\ passes[r].pc = "insert" /\ passes[r].s = 3
          /\ passes[r].pending[1].baseline = engine.baseline_data[1]

\* A generator call is waiting for its answer.
Pending ==
    \/ \E r \in 1..Len(reqs) : reqs[r].pc = "llm"
    \/ \E r \in 1..Len(analyses) : analyses[r].pc = "llm"

\* Both background tasks have completed every cycle up to MaxClock.
Horizon ==
    /\ feed.pc = "sleep" /\ feed.wake > MaxClock
    /\ retrain.pc = "sleep" /\ retrain.wake > MaxClock

\* C21: a generator call that never returns holds up only its own request:
\* while it is pending another request can be served at once, and the feed
\* and the retrain task go on to complete all their cycles.
C21_PendingCallBlocksNothing ==
    /\ [](Pending => ENABLED Lookups)
    /\ Pending ~> Horizon
C21_Witness ==
    /\ \E r \in 1..Len(reqs) : reqs[r].pc = "llm"
    /\ \E r \in 1..Len(analyses) : analyses[r].pc = "llm"
    /\ Horizon /\ feed.cycles >= 7 /\ retrain.cycles >= 1
    /\ reply.op = "get_incident" /\ reply.status = 200

ServiceIndex(service) == CHOOSE k \in 1..Len(services) : services[k] = service

\* What the step of pass q to p did for the service q was at.
PassStepIsRight(q, p) ==
    LET service == services[q.s]
        stored == {i \in 1..Len(metrics) : metrics[i].service = service}
        moved == IF q.s < Len(services) THEN p.pc = "find" /\ p.s = q.s + 1
                 ELSE p.pc = "done" /\ p.s = q.s
    IN  /\ q.pc = "find" =>
           /\ anomalies' = anomalies
           /\ p.detected = q.detected
           /\ stored = {} => moved /\ p.pending = None
           /\ ~engine.is_trained => moved /\ p.pending = None
           /\ stored # {} =>
              /\ p.judged # None
              /\ IF p.judged[1].result.is_anomaly
                 THEN /\ p.pc = "insert" /\ p.s = q.s /\ p.pending # None
                      /\ p.pending[1].service = service
                      /\ p.pending[1].confidence = p.judged[1].result.confidence
                      /\ \A i \in stored : metrics[i].timestamp <= p.pending[1].timestamp
                 ELSE moved /\ p.pending = None
        /\ q.pc = "insert" =>
           /\ anomalies' = Append(anomalies, q.pending[1])
           /\ p.detected = Append(q.detected, Len(anomalies'))
           /\ moved
        /\ q.pc = "done" => FALSE

\* C22: a pass takes the services one by one in the order of the list; a
\* service without a stored metric is skipped; an anomaly is persisted only
\* for a service whose newest metric detect judged anomalous, one at most
\* per service; an untrained engine gives none; incidents and actions are
\* left alone, and nothing else persists an anomaly.
C22_PassServiceByService ==
    [][/\ \A r \in 1..Len(passes) :
             passes'[r] # passes[r] => PassStepIsRight(passes[r], passes'[r])
       /\ \A r \in (Len(passes) + 1)..Len(passes') :
             passes'[r].pc = "find" /\ passes'[r].s = 1 /\ passes'[r].detected = <<>>
       /\ anomalies' # anomalies => \E r \in 1..Len(passes) : passes[r].pc = "insert"
       /\ \A r \in 1..Len(passes') :
             \A a, b \in 1..Len(passes'[r].detected) :
                a < b => ServiceIndex(anomalies'[passes'[r].detected[a]].service)
                            < ServiceIndex(anomalies'[passes'[r].detected[b]].service)
       /\ (passes' # passes => incidents' = incidents /\ actions' = actions)]_vars
C22_Witness ==
    \E r \in 1..Len(passes) :
       /\ passes[r].pc = "done" /\ Len(passes[r].detected) = 2
       /\ passes[r].judged # None /\ ~passes[r].judged[1].result.is_anomaly
       /\ anomalies[passes[r].detected[1]].service = "auth-service"

\* C23: severity follows from confidence alone, with strict comparisons:
\* critical above 0.8, high above 0.6 and up to 0.8, medium up to 0.6; so
\* 0.8 itself is high and 0.6 itself is medium. No other severity occurs,
\* in a built anomaly or in a stored one.
C23_SeverityByThresholds ==
    /\ ret.call = "anomaly" =>
          LET confidence == ret.anomaly[1].confidence
              severity == ret.anomaly[1].severity
          IN  /\ severity = "critical" <=> confidence > 80
              /\ severity = "high" <=> (60 < confidence /\ confidence <= 80)
              /\ severity = "medium" <=> confidence <= 60
              /\ severity \in {"medium", "high", "critical"}
    /\ \A i \in 1..Len(anomalies) : anomalies[i].severity \in {"medium", "high", "critical"}
C23_Witness ==
    /\ ret.call = "anomaly"
    /\ ret.anomaly[1].confidence = 80 /\ ret.anomaly[1].severity = "high"

\* The baseline the attribution of the latest call compared with.
UsedBaseline ==
    IF engine.baseline_data # <<>> THEN engine.baseline_data
    ELSE [c \in 1..5 |-> [num |-> ret.metric[c], den |-> 1]]
\* |value - baseline| / (baseline + 1) of dimension j as a pair: its
\* numerator and denominator once both are multiplied by the baseline's
\* denominator.
DevNum(j) == Abs(ret.metric[j] * UsedBaseline[j].den - UsedBaseline[j].num)
DevDen(j) == UsedBaseline[j].num + UsedBaseline[j].den

\* C24: metric_type is the dimension of the largest deviation
\* |value - baseline| / (baseline + 1) in the order cpu, memory, latency,
\* error_rate, requests_per_sec, the lowest index among equals; value and
\* baseline are the feature and the baseline entry of that dimension.
C24_AttributionIsFirstMax ==
    ret.call = "anomaly" =>
       \E i \in 1..5 :
          /\ ret.anomaly[1].metric_type = metric_names[i]
          /\ \A j \in 1..5 : DevNum(j) * DevDen(i) <= DevNum(i) * DevDen(j)
          /\ \A j \in 1..(i - 1) : DevNum(j) * DevDen(i) < DevNum(i) * DevDen(j)
          /\ ret.anomaly[1].value = ret.metric[i]
          /\ ret.anomaly[1].baseline = UsedBaseline[i]
C24_Witness ==
    /\ ret.call = "anomaly" /\ engine.is_trained
    /\ ret.metric = <<35, 91, 201, 1, 300>>
    /\ DevNum(2) * DevDen(3) = DevNum(3) * DevDen(2)
    /\ ret.anomaly[1].metric_type = "memory"

\* C25: a train call that trains replaces forest and baseline whole: the
\* baseline is the column means of the samples of that call, and the engine
\* is the one a fresh engine trained on those samples alone would be,
\* whatever it was trained on before.
C25_TrainReplacesWhole ==
    [][(ret'.call = "train" /\ Len(ret'.data) > 20) =>
          /\ engine'.is_trained
          /\ engine'.model = Some(ret'.data)
          /\ Len(engine'.baseline_data) = 5
          /\ \A c \in 1..5 :
                engine'.baseline_data[c].num * Len(ret'.data)
                   = ColumnSum(ret'.data, c) * engine'.baseline_data[c].den
          /\ engine' = Train(NewEngine, ret'.data)
      ]_vars

\* An engine that was trained before has been trained again, on 22 samples
\* of which two are failure samples, and holds those.
C25_Witness ==
    /\ ret.call = "train" /\ ret.was_trained /\ ret.size = 22
    /\ ret.data[22] = FailureSample /\ ret.data[21] = FailureSample
    /\ engine.model = Some(ret.data)

\* C26: on a trained engine detect says anomalous exactly when the forest
\* labels the vector an outlier; when the forest raises, detect returns
\* (False, 0.5): the pass goes on to the next service, it does not fail, and
\* no anomaly is built or stored for that metric.
C26_ScoringFailureIsNormal ==
    [][\A r \in 1..Len(passes) :
          LET q == passes[r]
              p == passes'[r]
          IN  /\ p.pc # "failed"
              /\ (q.pc = "find" /\ p # q /\ p.judged # None /\ engine.is_trained) =>
                    /\ p.judged[1].consulted # None
                    /\ LET scoring == p.judged[1].consulted[1]
                           result == p.judged[1].result
                       IN  /\ result.is_anomaly
                                 <=> (~scoring.raised /\ scoring.prediction = -1)
                           /\ scoring.raised =>
                                 /\ result = [is_anomaly |-> FALSE, confidence |-> 50]
                                 /\ p.pending = None
                                 /\ p.pc = IF q.s < Len(services) THEN "find" ELSE "done"
                                 /\ anomalies' = anomalies
      ]_vars

\* The forest raised on the fourth service's metric; the pass has moved on
\* to the fifth with one anomaly stored before.
C26_Witness ==
    \E r \in 1..Len(passes) :
       /\ passes[r].pc = "find" /\ passes[r].s = 5
       /\ passes[r].judged # None /\ passes[r].judged[1].consulted # None
       /\ passes[r].judged[1].consulted[1].raised
       /\ Len(passes[r].detected) = 1

\* C27: stored anomalies are only added to, and only by the step of a
\* detection pass that inserts one; no step changes or removes a stored
\* anomaly, and no step removes an incident.
C27_AnomaliesAppendOnly ==
    [][/\ Len(anomalies') >= Len(anomalies)
       /\ \A i \in 1..Len(anomalies) : anomalies'[i] = anomalies[i]
       /\ anomalies' # anomalies =>
             /\ Len(anomalies') = Len(anomalies) + 1
             /\ \E r \in 1..Len(passes) :
                   passes[r].pc = "insert" /\ passes'[r] # passes[r]
       /\ Len(incidents') >= Len(incidents)
       /\ \A i \in 1..Len(incidents) :
             /\ incidents'[i].title = incidents[i].title
             /\ incidents'[i].created_at = incidents[i].created_at
      ]_vars

\* Five anomalies are stored, and beside them the incident was patched,
\* analysed and given recommendations, its action was approved and then
\* rejected, the feed is past its seventh cycle and the retrain has run.
C27_Witness ==
    /\ Len(anomalies) = 5 /\ anomalies[1].service = "api-gateway"
    /\ Len(incidents) = 1 /\ incidents[1].status = "resolved"
    /\ incidents[1].ai_explanation # None /\ incidents[1].recommendations # None
    /\ Len(actions) = 1 /\ actions[1].status = "rejected" /\ actions[1].approved_by # None
    /\ feed.cycles >= 7 /\ retrain.cycles >= 1 /\ engine.is_trained

\* C28: an incident's status and resolved_at change in no step but that of
\* an update request; a pass, an analysis or a recommendation being stored,
\* an approval, a rejection and the background tasks leave both as they
\* were, so an incident once patched to resolved stays so whatever is
\* stored afterwards.
C28_StatusOnlyByPatch ==
    [][/\ \A i \in 1..Len(incidents) :
             (\/ incidents'[i].status # incidents[i].status
              \/ incidents'[i].resolved_at # incidents[i].resolved_at)
                => patches' = patches + 1
       /\ \A i \in 1..Len(incidents') :
             everResolved'[i] => /\ incidents'[i].status = "resolved"
                                 /\ incidents'[i].resolved_at # None
      ]_vars

\* The incident was resolved by a patch while a recommendation request
\* waited for the generator; the response has been stored since, also an
\* explanation, and a pass has stored anomalies.
C28_Witness ==
    /\ Len(incidents) = 1 /\ patches = 1
    /\ incidents[1].status = "resolved" /\ incidents[1].resolved_at # None
    /\ incidents[1].recommendations # None /\ incidents[1].ai_explanation # None
    /\ \E r \in Reqs : reqs[r].pc = "done"
    /\ Len(anomalies) >= 1 /\ decisions = 2

\* C29: a recommendation request that ends in an error has stored nothing:
\* it has created no action, and the recommendations field of no incident
\* has been written.
C29_ErrorLeavesNothing ==
    \A r \in Reqs :
       reqs[r].pc = "failed" =>
          /\ reqs[r].made = <<>>
          /\ \A i \in 1..Len(incidents) : incidents[i].recommendations = None

Made(q) == {q.made[j] : j \in 1..Len(q.made)}

\* C30: a step of a recommendation request leaves every stored action as
\* it is (so an approved or rejected action keeps its status), each insert
\* adds one pending action of the request's incident, the response is
\* stored as the recommendations of the incident the request was made for
\* in place of what was there, and the actions are exactly those of all
\* the requests' batches, each in one batch.
C30_BatchesOnlyAdd ==
    [][/\ \A r \in 1..Len(reqs) :
             LET q == reqs[r]
                 p == reqs'[r]
             IN  p # q =>
                    /\ Len(actions') >= Len(actions)
                    /\ \A i \in 1..Len(actions) : actions'[i] = actions[i]
                    /\ (q.pc = "insert" /\ p.k = q.k + 1) =>
                          /\ Len(actions') = Len(actions) + 1
                          /\ actions'[Len(actions')].status = "pending"
                          /\ actions'[Len(actions')].incident_id = q.incident_id
                          /\ p.made = Append(q.made, Len(actions'))
                    /\ q.pc = "llm" =>
                          \E i \in 1..Len(incidents') :
                             /\ incidents'[i].id = q.incident_id
                             /\ incidents'[i].recommendations = Some(p.recs)
       /\ \A i \in 1..Len(actions') :
             \E r \in 1..Len(reqs') :
                /\ i \in Made(reqs'[r])
                /\ reqs'[r].incident_id = actions'[i].incident_id
       /\ \A r1, r2 \in 1..Len(reqs') :
             r1 # r2 => Made(reqs'[r1]) \cap Made(reqs'[r2]) = {}
      ]_vars

\* C31: the ids of the stored incidents are pairwise distinct, no step
\* changes the id of a stored incident, and the id returned when an incident
\* was created (its position in the collection) still finds that incident.
C31_IdentityStable ==
    [][/\ \A i, j \in 1..Len(incidents') :
             i # j => incidents'[i].id # incidents'[j].id
       /\ \A i \in 1..Len(incidents) : incidents'[i].id = incidents[i].id
       /\ \A i \in 1..Len(incidents') : FindOne(incidents', i) = i
      ]_vars

\* C32: a trained engine stays trained through every call: no train call,
\* whatever its samples, and no detect call clears the flag; a detect call
\* on it goes to the forest instead of the untrained shortcut, and the
\* health check reports trained before and after.
C32_TrainedStaysTrained ==
    [][engine.is_trained =>
          /\ engine'.is_trained /\ engine'.model # None
          /\ Health.anomaly_detector = "trained"
          /\ Health'.anomaly_detector = "trained"
          /\ ret'.call = "detect" =>
                /\ ret'.was_trained
                /\ \E scoring \in Scorings :
                      ret'.result =
                         IF scoring.raised THEN [is_anomaly |-> FALSE, confidence |-> 50]
                         ELSE [is_anomaly |-> scoring.prediction = -1,
                               confidence |-> Sigmoid(scoring.score)]
      ]_vars

\* A trained engine was given 20 samples, too few to train on, and is still
\* trained on what it had.
C32_Witness ==
    /\ ret.call = "train" /\ ret.size = 20 /\ ret.was_trained
    /\ engine.is_trained /\ engine.model # None /\ engine.model[1] # ret.data
    /\ Health.anomaly_detector = "trained"

\* C33: with both tasks scheduled fairly and persistence failing only a
\* bounded number of times, the engine is trained in the end: once
\* db.metrics holds more than the retrain threshold, a later retrain cycle
\* trains it, and the first retrain cycle that reads db.metrics from then on
\* is the one that does. Until the first retrain interval has elapsed it is
\* untrained.
C33_EventuallyTrained ==
    /\ [](now < RetrainInterval => ~engine.is_trained)
    /\ <>(Len(metrics) > RetrainMin)
    /\ (Len(metrics) > RetrainMin) ~> engine.is_trained
    /\ [][/\ (retrain.pc = "sleep" /\ retrain'.pc = "fetched"
              /\ Len(metrics) > RetrainMin)
             => Len(retrain'.window) > RetrainMin
          /\ (retrain.pc = "fetched" /\ retrain'.pc = "sleep"
              /\ Len(retrain.window) > RetrainMin)
             => engine'.is_trained
         ]_vars

\* The first retrain found too few metrics and the second failed to read;
\* the third has trained the engine at the end of the horizon.
C33_Witness ==
    /\ engine.is_trained /\ retrain.cycles = 3 /\ retrain.failures = 1
    /\ Len(engine.model[1]) > RetrainMin
    /\ now = FairHorizon

====
